---- MODULE Spec2Model ----
(***************************************************************************)
(* Model of the run orchestration layer (ControlBar.handleMultipleRuns in  *)
(* control-bar.tsx) and of the agentic conversation loop                   *)
(* (openaiProvider.executeRequest in providers/openai/index.ts).           *)
(*                                                                         *)
(* JavaScript is run-to-completion: a handler runs from its invocation to  *)
(* its first await, and from the settling of the awaited promise to the    *)
(* next await, without any other handler interleaving.  Each action below  *)
(* is one such uninterruptible stretch of code.                            *)
(***************************************************************************)
EXTENDS Integers, Sequences, FiniteSets, TLC

\* ------------------------------------------------------------------ bounds

\* Largest run count offered to the user in the model.
MaxRunCount == 5
\* Number of batches started one after the other in one behaviour.
MaxBatches == 2
\* Most blocks scheduled for one debug run.
MaxBlocks == 3
\* Most tool invocations one provider response requests.
MaxToolCalls == 2
\* Most events of one provider request that depart from the plain run, in
\* which every response requests one valid call of a registered tool or none,
\* reports the usual usage, carries text only when it requests no tool, every
\* tool succeeds and every awaited call takes one tick of the clock.
MaxDeviations == 2
\* Number of parameter names of a tool in the model.
MaxKeys == 2
\* Number of values a tool parameter takes in the model.
MaxValue == 2

\* ------------------------------------------------- run batch (control bar)

VARIABLES
  runCount,         \* useState(1): the selected number of runs
  completedRuns,    \* useState(0)
  isMultiRunning,   \* useState(false)
  showRunProgress,  \* useState(false)
  isCancelling,     \* useState(false)
  cancelFlagRef,    \* useRef(false).current
  isExecuting,      \* useWorkflowExecution().isExecuting
  activeWorkflowId, \* TRUE: a workflow is active, FALSE: null
  notifications,    \* what addNotification was called with, in order
  statsCalls,       \* the runs=... parameter of every stats POST, in order
  statsPending,     \* stats POSTs whose promise has not settled
  statsLogged,      \* failures of a stats POST written to the log
  hideTimers,       \* pending setTimeout(() => setShowRunProgress(false))
  bpc,              \* position of handleMultipleRuns: idle | awaitRun | done
  i,                \* loop variable of handleMultipleRuns
  n,                \* runCount as captured by the running invocation
  staleCompleted,   \* completedRuns as captured by the running invocation
  wasCancelled,     \* local of handleMultipleRuns
  workflowError,    \* local of handleMultipleRuns (TRUE: an error was caught)
  outcome,          \* branch taken by the finally block, "none" before it
  \* history of the current batch, kept for the properties only
  started,          \* calls of handleRunWorkflow made
  finished,         \* calls of handleRunWorkflow that resolved
  raisedAt,         \* number of the run that rejected, 0 if none
  cancelAt,         \* runs finished when cancellation was requested, -1 if never
  observedAt,       \* runs finished when the loop saw the flag set, -1 if never
  notified,         \* notifications published by the current batch
  statsSent,        \* the runs=... parameter of the stats POSTs of this batch
  statsThrew,       \* the fetch of this batch's stats POST threw
  refused,          \* handleMultipleRuns returned at its guard since the last start
  batches           \* batches started so far

batchVars == <<runCount, completedRuns, isMultiRunning, showRunProgress,
               isCancelling, cancelFlagRef, isExecuting, activeWorkflowId,
               notifications, statsCalls, statsPending, statsLogged,
               hideTimers, bpc, i, n, staleCompleted, wasCancelled,
               workflowError, outcome, started, finished, raisedAt, cancelAt,
               observedAt, notified, statsSent, statsThrew, refused, batches>>

\* ------------------------------------- conversation loop (executeRequest)

VARIABLES
  apiKey,            \* request.apiKey is set
  lpc,               \* start | awaitInitial | awaitTool | awaitModel | returned | threw
  clock,             \* Date.now()
  providerStartTime,
  awaitStart,        \* initialCallTime / toolCallStartTime / nextModelStartTime
  toolsStartTime,
  currentResponse,   \* [calls, usage, content] of the latest completion
  content,
  tokens,
  toolCalls,
  toolResults,
  currentMessages,
  iterationCount,
  modelTime,
  toolsTime,
  firstResponseTime,
  timeSegments,
  toolIdx,           \* position of the for loop in currentResponse.calls
  result,            \* the ProviderResponse returned, NoResult before
  thrown,            \* the error thrown, NoError if none
  \* history of the request, kept for the properties only
  modelCalls,        \* calls of openai.chat.completions.create issued
  toolExecs,         \* calls of executeTool issued
  reported,          \* sums of the usage the provider reported
  firstLen,          \* tool calls in the first response, -1 before it
  allRequested,      \* every response so far requested a tool call
  executedIds,       \* ids of the tool calls handed to executeTool
  skippedIds,        \* ids of the tool calls passed over without executeTool
  failedIds,         \* ids of the tool calls whose executeTool did not succeed
  deviations         \* departures from the plain run so far

loopVars == <<apiKey, lpc, clock, providerStartTime, awaitStart,
              toolsStartTime, currentResponse, content, tokens, toolCalls,
              toolResults, currentMessages, iterationCount, modelTime,
              toolsTime, firstResponseTime, timeSegments, toolIdx, result,
              thrown, modelCalls, toolExecs, reported, firstLen, allRequested,
              executedIds, skippedIds, failedIds, deviations>>

\* ----------------------------------------- debug controls (control bar)

VARIABLES
  isDebugModeEnabled, \* useGeneralStore().isDebugModeEnabled
  isDebugging,        \* useExecutionStore: a debug session is open
  pendingBlocks,      \* useExecutionStore: the pending blocks, in order
  dflight,            \* work of the controller in flight: none | step | resume
  \* history of the debug run, kept for the properties only
  runBlocks,          \* the blocks scheduled for the debug run
  executedBlocks,     \* the blocks of the debug run executed, in order
  discardedBlocks,    \* the blocks pending when the debug run was cancelled
  resumeFrom,         \* the blocks pending when resume was clicked
  sessions            \* debug runs started so far

debugVars == <<isDebugModeEnabled, isDebugging, pendingBlocks, dflight,
               runBlocks, executedBlocks, discardedBlocks, resumeFrom,
               sessions>>

\* The state of the run batch that the debug controls leave alone.
batchOther == <<runCount, completedRuns, isMultiRunning, showRunProgress,
                isCancelling, cancelFlagRef, activeWorkflowId, notifications,
                statsCalls, statsPending, statsLogged, hideTimers, bpc, i, n,
                staleCompleted, wasCancelled, workflowError, outcome, started,
                finished, raisedAt, cancelAt, observedAt, notified, statsSent,
                statsThrew, refused, batches>>

\* ------------------------------- arguments of a tool call (provider loop)

VARIABLES
  toolParams,        \* tool.params: the defaults configured for the tool
  toolArgs,          \* JSON.parse(toolCall.function.arguments)
  mergedArgs,        \* what executeTool receives
  mpc                \* off | parsed | merged

mergeVars == <<toolParams, toolArgs, mergedArgs, mpc>>

vars == <<batchVars, loopVars, debugVars, mergeVars>>

RUN_COUNT_OPTIONS == {1, 5, 10, 25, 50, 100}

RunCountChoices == {c \in RUN_COUNT_OPTIONS : c <= MaxRunCount}

BatchInit ==
  /\ runCount = 1
  /\ completedRuns = 0
  /\ isMultiRunning = FALSE
  /\ showRunProgress = FALSE
  /\ isCancelling = FALSE
  /\ cancelFlagRef = FALSE
  /\ isExecuting = FALSE
  /\ activeWorkflowId \in BOOLEAN
  /\ notifications = <<>>
  /\ statsCalls = <<>>
  /\ statsPending = 0
  /\ statsLogged = 0
  /\ statsSent = <<>>
  /\ statsThrew = FALSE
  /\ refused = FALSE
  /\ hideTimers = 0
  /\ bpc = "idle"
  /\ i = 0
  /\ n = 0
  /\ staleCompleted = 0
  /\ wasCancelled = FALSE
  /\ workflowError = FALSE
  /\ outcome = "none"
  /\ started = 0
  /\ finished = 0
  /\ raisedAt = 0
  /\ cancelAt = -1
  /\ observedAt = -1
  /\ notified = 0
  /\ batches = 0

\* The guard on the first line of handleMultipleRuns.
BatchGuard == ~(isExecuting \/ isMultiRunning \/ runCount <= 0)

\* The test at the top of the for loop: the ref, read before each run.
\* (CancellationObservedStale: the test on a value captured at invocation.)
CancellationObservedStale == FALSE

CancellationObserved == cancelFlagRef

\* The value handed to setCompletedRuns after run number idx + 1 resolved.
CompletedAfterStale(idx) == idx

CompletedAfter(idx) == idx + 1

\* The loop condition i < runCount, on the captured runCount.
MoreRunsOffByOne(idx) == idx <= n

MoreRuns(idx) == idx < n

\* The branch the finally block takes for its notification.
OutcomeIgnoringError(cancelled, errored) ==
  IF cancelled THEN "cancelled" ELSE "completed"

Outcome(cancelled, errored) ==
  IF cancelled THEN "cancelled" ELSE IF errored THEN "error" ELSE "completed"

\* The notification the finally block publishes, if any: the success message
\* is published for batches of more than one run only, and carries the
\* completedRuns value the invocation captured when it was created.
TerminalNotificationNoError(cancelled, errored) ==
  IF cancelled THEN <<[type |-> "info", text |-> "cancelled", runs |-> 0]>>
  ELSE IF errored THEN <<>>
  ELSE IF n > 1
       THEN <<[type |-> "console", text |-> "completed", runs |-> staleCompleted]>>
       ELSE <<>>

TerminalNotification(cancelled, errored) ==
  IF cancelled THEN <<[type |-> "info", text |-> "cancelled", runs |-> 0]>>
  ELSE IF errored THEN <<[type |-> "error", text |-> "failed", runs |-> 0]>>
  ELSE IF n > 1
       THEN <<[type |-> "console", text |-> "completed", runs |-> staleCompleted]>>
       ELSE <<>>

\* The stats POST after the loop: only for a loop that was not cancelled and
\* with an active workflow; it reports the captured runCount.
StatsRequestAlsoCancelled(cancelled) ==
  IF activeWorkflowId THEN <<n>> ELSE <<>>

StatsRequest(cancelled) ==
  IF ~cancelled /\ activeWorkflowId THEN <<n>> ELSE <<>>

\* The stats POST as the function makes it: fetchHow is sent (fetch returned
\* a promise, left to settle on its own) or throws (fetch threw, caught by the
\* try around it and logged).
IssueStats(cancelled, fetchHow) ==
  LET req == StatsRequest(cancelled) IN
  /\ statsCalls' = statsCalls \o req
  /\ statsSent' = req
  /\ statsThrew' = (req # <<>> /\ fetchHow = "throws")
  /\ statsPending' = IF req # <<>> /\ fetchHow = "sent"
                     THEN statsPending + 1 ELSE statsPending
  /\ statsLogged' = IF req # <<>> /\ fetchHow = "throws"
                    THEN statsLogged + 1 ELSE statsLogged

\* Whether an error thrown by the fetch of the stats POST reaches the catch
\* block of the runs: the try around the fetch catches it.
StatsErrorEscapesInnerTry(fetchHow) == fetchHow = "throws"

StatsErrorEscapes(fetchHow) == FALSE

\* The cancellation flag as the finally block leaves it.
FlagAfterFinallyKept == cancelFlagRef

FlagAfterFinally == FALSE

\* The finally block of handleMultipleRuns.
Finally(cancelled, errored) ==
  /\ isMultiRunning' = FALSE
  /\ IF n > 1
     THEN /\ hideTimers' = hideTimers + 1
          /\ UNCHANGED showRunProgress
     ELSE /\ showRunProgress' = FALSE
          /\ UNCHANGED hideTimers
  /\ isCancelling' = FALSE
  /\ cancelFlagRef' = FlagAfterFinally
  /\ notifications' = notifications \o TerminalNotification(cancelled, errored)
  /\ notified' = notified + Len(TerminalNotification(cancelled, errored))
  /\ wasCancelled' = cancelled
  /\ workflowError' = errored
  /\ outcome' = Outcome(cancelled, errored)
  /\ bpc' = "done"

\* handleMultipleRuns from the click to its first await: the guard, the reset,
\* the first pass of the loop test (the flag was just cleared) and the call of
\* handleRunWorkflow.
StartBatch ==
  /\ bpc \in {"idle", "done"}
  /\ batches + sessions < MaxBatches
  /\ ~isDebugModeEnabled
  /\ BatchGuard
  /\ completedRuns' = 0
  /\ isMultiRunning' = TRUE
  /\ isCancelling' = FALSE
  /\ cancelFlagRef' = FALSE
  /\ showRunProgress' = (runCount > 1)
  /\ n' = runCount
  /\ staleCompleted' = completedRuns
  /\ wasCancelled' = FALSE
  /\ workflowError' = FALSE
  /\ outcome' = "none"
  /\ i' = 0
  /\ isExecuting' = TRUE
  /\ started' = 1
  /\ finished' = 0
  /\ raisedAt' = 0
  /\ cancelAt' = -1
  /\ observedAt' = -1
  /\ notified' = 0
  /\ statsSent' = <<>>
  /\ statsThrew' = FALSE
  /\ refused' = FALSE
  /\ batches' = batches + 1
  /\ bpc' = "awaitRun"
  /\ UNCHANGED <<runCount, activeWorkflowId, notifications, statsCalls,
                 statsPending, statsLogged, hideTimers>>
  /\ UNCHANGED <<loopVars, debugVars, mergeVars>>

\* The awaited handleRunWorkflow resolved: setCompletedRuns(i + 1), i++, then
\* either the next pass of the loop up to the next await, or the rest of the
\* function (stats call and finally block).
RunResolves(fetchHow) ==
  /\ bpc = "awaitRun"
  /\ fetchHow = "throws" => (~MoreRuns(i + 1) /\ StatsRequest(FALSE) # <<>>)
  /\ completedRuns' = CompletedAfter(i)
  /\ i' = i + 1
  /\ finished' = finished + 1
  /\ IF MoreRuns(i + 1)
     THEN IF CancellationObserved
          THEN /\ observedAt' = finished + 1
               /\ isExecuting' = FALSE
               /\ IssueStats(TRUE, fetchHow)
               /\ Finally(TRUE, FALSE)
               /\ UNCHANGED <<started>>
          ELSE /\ started' = started + 1
               /\ isExecuting' = TRUE
               /\ UNCHANGED <<isMultiRunning, showRunProgress, isCancelling,
                              cancelFlagRef, notifications, statsCalls,
                              statsPending, statsLogged, statsSent, statsThrew,
                              hideTimers, bpc, wasCancelled, workflowError,
                              outcome, observedAt, notified>>
     ELSE /\ isExecuting' = FALSE
          /\ IssueStats(FALSE, fetchHow)
          /\ Finally(FALSE, StatsErrorEscapes(fetchHow))
          /\ UNCHANGED <<started, observedAt>>
  /\ UNCHANGED <<runCount, activeWorkflowId, n, staleCompleted, raisedAt,
                 cancelAt, refused, batches>>
  /\ UNCHANGED <<loopVars, debugVars, mergeVars>>

\* The awaited handleRunWorkflow rejected: the catch block, then finally.
RunRejects ==
  /\ bpc = "awaitRun"
  /\ raisedAt' = started
  /\ isExecuting' = FALSE
  /\ Finally(FALSE, TRUE)
  /\ UNCHANGED <<runCount, completedRuns, activeWorkflowId, statsCalls,
                 statsPending, statsLogged, statsSent, statsThrew, refused, i, n,
                 staleCompleted, started, finished, cancelAt, observedAt,
                 batches>>
  /\ UNCHANGED <<loopVars, debugVars, mergeVars>>

\* The onClick of the cancel button, rendered while isMultiRunning and
\* disabled while isCancelling.
CancelClick ==
  /\ isMultiRunning
  /\ ~isCancelling
  /\ cancelFlagRef' = TRUE
  /\ isCancelling' = TRUE
  /\ cancelAt' = finished
  /\ UNCHANGED <<runCount, completedRuns, isMultiRunning, showRunProgress,
                 isExecuting, activeWorkflowId, notifications, statsCalls,
                 statsPending, statsLogged, statsSent, statsThrew, refused,
                 hideTimers, bpc, i, n, staleCompleted, wasCancelled,
                 workflowError, outcome, started, finished, raisedAt,
                 observedAt, notified, batches>>
  /\ UNCHANGED <<loopVars, debugVars, mergeVars>>

\* An item of the run count dropdown, rendered while not multi-running and
\* disabled while executing or cancelling.
SetRunCount(c) ==
  /\ ~isDebugModeEnabled
  /\ ~isMultiRunning
  /\ ~(isExecuting \/ isCancelling)
  /\ runCount' = c
  /\ UNCHANGED <<completedRuns, isMultiRunning, showRunProgress, isCancelling,
                 cancelFlagRef, isExecuting, activeWorkflowId, notifications,
                 statsCalls, statsPending, statsLogged, statsSent, statsThrew, refused,
                 hideTimers, bpc, i, n, staleCompleted,
                 wasCancelled, workflowError, outcome, started, finished,
                 raisedAt, cancelAt, observedAt, notified, batches>>
  /\ UNCHANGED <<loopVars, debugVars, mergeVars>>

\* The timer set by the finally block of a batch of more than one run.
HideProgressTimer ==
  /\ hideTimers > 0
  /\ hideTimers' = hideTimers - 1
  /\ showRunProgress' = FALSE
  /\ UNCHANGED <<runCount, completedRuns, isMultiRunning, isCancelling,
                 cancelFlagRef, isExecuting, activeWorkflowId, notifications,
                 statsCalls, statsPending, statsLogged, statsSent, statsThrew, refused,
                 bpc, i, n, staleCompleted, wasCancelled,
                 workflowError, outcome, started, finished, raisedAt,
                 cancelAt, observedAt, notified, batches>>
  /\ UNCHANGED <<loopVars, debugVars, mergeVars>>

\* The promise of a stats POST settled: a rejection is logged by its catch
\* handler, a fulfilment is ignored.
StatsSettles(ok) ==
  /\ statsPending > 0
  /\ statsPending' = statsPending - 1
  /\ statsLogged' = IF ok THEN statsLogged ELSE statsLogged + 1
  /\ UNCHANGED <<runCount, completedRuns, isMultiRunning, showRunProgress,
                 isCancelling, cancelFlagRef, isExecuting, activeWorkflowId,
                 notifications, statsCalls, hideTimers, bpc, i, n,
                 staleCompleted, wasCancelled, workflowError, outcome, started,
                 finished, raisedAt, cancelAt, observedAt, notified, statsSent,
                 statsThrew, refused, batches>>
  /\ UNCHANGED <<loopVars, debugVars, mergeVars>>

\* handleMultipleRuns called while its guard fails: it returns on its first
\* line.
RefusedInvocation ==
  /\ ~BatchGuard
  /\ ~refused
  /\ refused' = TRUE
  /\ UNCHANGED <<runCount, completedRuns, isMultiRunning, showRunProgress,
                 isCancelling, cancelFlagRef, isExecuting, activeWorkflowId,
                 notifications, statsCalls, statsPending, statsLogged,
                 hideTimers, bpc, i, n, staleCompleted, wasCancelled,
                 workflowError, outcome, started, finished, raisedAt, cancelAt,
                 observedAt, notified, statsSent, statsThrew, batches>>
  /\ UNCHANGED <<loopVars, debugVars, mergeVars>>

BatchNext ==
  \/ StartBatch
  \/ RefusedInvocation
  \/ \E fetchHow \in {"sent", "throws"} : RunResolves(fetchHow)
  \/ \E ok \in BOOLEAN : StatsSettles(ok)
  \/ RunRejects
  \/ CancelClick
  \/ \E c \in RunCountChoices : SetRunCount(c)
  \/ HideProgressTimer

\* -------------------------------------------------- the conversation loop

MAX_ITERATIONS == 10

\* request.tools: the ids of the caller-supplied tools.
RequestTools == {"t1"}

\* Names a tool call of a response can carry: a registered tool, or not.
ToolNames == {"t1", "t0"}

NoUsage == [absent |-> TRUE]
PlainUsage == [prompt |-> 1, completion |-> 1, total |-> 2]
Usages == {NoUsage, PlainUsage, [prompt |-> 2, completion |-> 0, total |-> 2]}

\* Ticks of the clock an awaited call can take.  The clock advances while a
\* call is awaited only: synchronous code is taken to run within one tick.
Ticks == {1, 2}
PlainTicks == CHOOSE t \in Ticks : \A u \in Ticks : t <= u

NoResult == [none |-> TRUE]
NoError == [none |-> TRUE]
NoResponse == [calls |-> <<>>, usage |-> NoUsage, content |-> 0]

\* The tool calls of a response, before their ids are given: the name and
\* whether function.arguments parses as JSON.
CallShapes == [name : ToolNames, argsOk : BOOLEAN]
PlainShape == [name |-> "t1", argsOk |-> TRUE]

CallLists ==
  UNION {[1..len -> CallShapes] : len \in 0..MaxToolCalls}

\* message.tool_calls of the k-th completion: ids are unique in a request.
WithIds(shapes, k) ==
  [j \in 1..Len(shapes) |->
     [id |-> k * 10 + j, name |-> shapes[j].name, argsOk |-> shapes[j].argsOk]]

\* Departures of a response from the plain one.
ResponseCost(shapes, usage, text, dt) ==
  (IF Len(shapes) > 1 THEN Len(shapes) - 1 ELSE 0)
  + Cardinality({j \in 1..Len(shapes) : shapes[j] # PlainShape})
  + (IF usage # PlainUsage THEN 1 ELSE 0)
  + (IF text # (Len(shapes) = 0) THEN 1 ELSE 0)
  + (IF dt # PlainTicks THEN 1 ELSE 0)

\* The lists of tool calls, each with the departures it alone accounts for.
CostedCallLists ==
  {<<shapes, ResponseCost(shapes, PlainUsage, Len(shapes) = 0, PlainTicks)>> :
     shapes \in CallLists}

\* Departures of a tool execution from the plain one.
ToolCost(how, dt) ==
  (IF how # "success" THEN 1 ELSE 0) + (IF dt # PlainTicks THEN 1 ELSE 0)

\* allMessages: the system prompt and the caller-supplied messages.
InitialMessages == <<[role |-> "system", id |-> 0], [role |-> "user", id |-> 0]>>

LoopInit ==
  /\ apiKey \in BOOLEAN
  /\ lpc = "start"
  /\ clock = 0
  /\ providerStartTime = 0
  /\ awaitStart = 0
  /\ toolsStartTime = 0
  /\ currentResponse = NoResponse
  /\ content = 0
  /\ tokens = [prompt |-> 0, completion |-> 0, total |-> 0]
  /\ toolCalls = <<>>
  /\ toolResults = <<>>
  /\ currentMessages = <<>>
  /\ iterationCount = 0
  /\ modelTime = 0
  /\ toolsTime = 0
  /\ firstResponseTime = 0
  /\ timeSegments = <<>>
  /\ toolIdx = 0
  /\ result = NoResult
  /\ thrown = NoError
  /\ modelCalls = 0
  /\ toolExecs = 0
  /\ reported = [prompt |-> 0, completion |-> 0, total |-> 0]
  /\ firstLen = -1
  /\ allRequested = TRUE
  /\ executedIds = {}
  /\ skippedIds = {}
  /\ failedIds = {}
  /\ deviations = 0

\* usage?.x || 0 of the first completion.
FirstUsage(usage) ==
  IF usage = NoUsage
  THEN [prompt |-> 0, completion |-> 0, total |-> 0]
  ELSE [prompt |-> usage.prompt, completion |-> usage.completion, total |-> usage.total]

\* What the provider reported, for the history.
Reported(sum, usage) ==
  IF usage = NoUsage THEN sum
  ELSE [prompt |-> sum.prompt + usage.prompt,
        completion |-> sum.completion + usage.completion,
        total |-> sum.total + usage.total]

\* if (currentResponse.usage) tokens.x += usage.x || 0
AddUsageTotalTwice(tok, usage) ==
  IF usage = NoUsage THEN tok
  ELSE [prompt |-> tok.prompt + usage.prompt,
        completion |-> tok.completion + usage.completion,
        total |-> tok.total + usage.prompt + usage.completion + usage.total]

AddUsage(tok, usage) ==
  IF usage = NoUsage THEN tok
  ELSE [prompt |-> tok.prompt + usage.prompt,
        completion |-> tok.completion + usage.completion,
        total |-> tok.total + usage.total]

\* modelTime += thisModelTime
AddModelTimeOverwrite(mt, d) == d

AddModelTime(mt, d) == mt + d

\* The while condition.
WithinCapInclusive(ic) == ic <= MAX_ITERATIONS

WithinCap(ic) == ic < MAX_ITERATIONS

\* timing.iterations of the returned response.
IterationsUncounted(ic) == ic

Iterations(ic) == ic + 1

\* How the function ends once the while loop is left: it returns, also when
\* the loop was left because the cap was reached.
ExitKindCapThrows(ic, calls) ==
  IF ~WithinCap(ic) /\ Len(calls) > 0 THEN "threw" ELSE "returned"

ExitKind(ic, calls) == "returned"

\* A tool call the for loop executes: its arguments parse and its tool is
\* found in request.tools; any other is skipped without an await.
ExecutableAnyTool(call) == call.argsOk

Executable(call) == call.argsOk /\ call.name \in RequestTools

\* The first call at or after position from that is executed, Len + 1 if none.
NextExecutableLast(calls, from) ==
  IF \E j \in from..Len(calls) : Executable(calls[j])
  THEN CHOOSE j \in from..Len(calls) :
         /\ Executable(calls[j])
         /\ \A k \in (j + 1)..Len(calls) : ~Executable(calls[k])
  ELSE Len(calls) + 1

NextExecutable(calls, from) ==
  IF \E j \in from..Len(calls) : Executable(calls[j])
  THEN CHOOSE j \in from..Len(calls) :
         /\ Executable(calls[j])
         /\ \A k \in from..(j - 1) : ~Executable(calls[k])
  ELSE Len(calls) + 1

\* The for loop from position from to its next await: the executeTool of the
\* next executable call, or, the list exhausted, the next completion request.
ProceedFrom(calls, from, tTime, tStart) ==
  LET j == NextExecutable(calls, from) IN
  /\ awaitStart' = clock'
  /\ skippedIds' = skippedIds \cup {calls[k].id : k \in from..(j - 1)}
  /\ IF j <= Len(calls)
     THEN /\ lpc' = "awaitTool"
          /\ toolIdx' = j
          /\ toolsTime' = tTime
          /\ toolExecs' = toolExecs + 1
          /\ executedIds' = executedIds \cup {calls[j].id}
          /\ UNCHANGED modelCalls
     ELSE /\ lpc' = "awaitModel"
          /\ toolIdx' = 0
          /\ toolsTime' = tTime + (clock' - tStart)
          /\ modelCalls' = modelCalls + 1
          /\ UNCHANGED <<toolExecs, executedIds>>

\* The timing the catch block attaches to the error it rethrows: the start of
\* the provider execution, the time of the failure and the time between them.
ErrorTimingOfLastCall(now) ==
  [startTime |-> awaitStart, endTime |-> now, duration |-> now - awaitStart]

ErrorTiming(now) ==
  [startTime |-> providerStartTime, endTime |-> now,
   duration |-> now - providerStartTime]

\* The return statement.
Return(ic, calls) ==
  /\ lpc' = ExitKind(ic, calls)
  /\ result' = IF ExitKind(ic, calls) = "returned"
               THEN [content |-> content',
                     tokens |-> tokens',
                     toolCalls |-> toolCalls,
                     toolResults |-> toolResults,
                     duration |-> clock' - providerStartTime,
                     modelTime |-> modelTime',
                     toolsTime |-> toolsTime,
                     firstResponseTime |-> firstResponseTime',
                     iterations |-> Iterations(ic),
                     timeSegments |-> timeSegments']
               ELSE NoResult
  /\ thrown' = IF ExitKind(ic, calls) = "returned"
               THEN NoError
               ELSE [message |-> "provider", timing |-> ErrorTiming(clock')]
  /\ UNCHANGED <<awaitStart, toolsStartTime, toolsTime, toolIdx, modelCalls,
                 toolExecs, executedIds, skippedIds>>

\* The top of the while loop, reached with a fresh completion: the loop is
\* left when the cap is reached or the completion requests no tool call.
LoopTop(ic, calls) ==
  IF WithinCap(ic) /\ Len(calls) > 0
  THEN /\ toolsStartTime' = clock'
       /\ ProceedFrom(calls, 1, toolsTime, clock')
       /\ UNCHANGED <<result, thrown>>
  ELSE Return(ic, calls)

\* The test of the API key made before anything else.
MissingApiKeyUnchecked == FALSE

MissingApiKey == ~apiKey

\* The error thrown for a missing API key: thrown before the try block, it is
\* a plain Error and carries no timing.
AuthError == [message |-> "API key is required"]

\* executeRequest up to its first await: the API key check, the payload and
\* the first completion request.
Begin ==
  /\ lpc = "start"
  /\ IF MissingApiKey
     THEN /\ lpc' = "threw"
          /\ thrown' = AuthError
          /\ UNCHANGED <<providerStartTime, awaitStart, modelCalls>>
     ELSE /\ lpc' = "awaitInitial"
          /\ providerStartTime' = clock
          /\ awaitStart' = clock
          /\ modelCalls' = modelCalls + 1
          /\ UNCHANGED thrown
  /\ UNCHANGED <<apiKey, clock, toolsStartTime, currentResponse, content,
                 tokens, toolCalls, toolResults, currentMessages,
                 iterationCount, modelTime, toolsTime, firstResponseTime,
                 timeSegments, toolIdx, result, toolExecs, reported, firstLen,
                 allRequested, executedIds, skippedIds, failedIds, deviations>>
  /\ UNCHANGED <<batchVars, debugVars, mergeVars>>

\* The first completion arrived.
InitialResolves(shapes, usage, text, dt) ==
  /\ lpc = "awaitInitial"
  /\ deviations + ResponseCost(shapes, usage, text, dt) <= MaxDeviations
  /\ deviations' = deviations + ResponseCost(shapes, usage, text, dt)
  /\ clock' = clock + dt
  /\ currentResponse' = [calls |-> WithIds(shapes, modelCalls), usage |-> usage,
                         content |-> IF text THEN modelCalls ELSE 0]
  /\ firstResponseTime' = clock' - awaitStart
  /\ content' = currentResponse'.content
  /\ tokens' = FirstUsage(usage)
  /\ reported' = Reported(reported, usage)
  /\ toolCalls' = <<>>
  /\ toolResults' = <<>>
  /\ currentMessages' = InitialMessages
  /\ iterationCount' = 0
  /\ modelTime' = firstResponseTime'
  /\ timeSegments' = <<[type |-> "model", name |-> 0, startTime |-> awaitStart,
                        endTime |-> awaitStart + firstResponseTime',
                        duration |-> firstResponseTime']>>
  /\ firstLen' = Len(shapes)
  /\ allRequested' = (Len(shapes) > 0)
  /\ LoopTop(0, currentResponse'.calls)
  /\ UNCHANGED <<apiKey, providerStartTime, failedIds>>
  /\ UNCHANGED <<batchVars, debugVars, mergeVars>>

\* The messages pushed for one successful tool call: an assistant message
\* whose tool_calls holds that call alone, then the tool message answering it.
ToolMessagesResultOnly(call) == <<[role |-> "tool", id |-> call.id]>>

ToolMessagesSwapped(call) ==
  <<[role |-> "tool", id |-> call.id], [role |-> "assistant", id |-> call.id]>>

ToolMessages(call) ==
  <<[role |-> "assistant", id |-> call.id], [role |-> "tool", id |-> call.id]>>

\* Whether a settled executeTool gets past the catch block and the test of
\* result.success, to the pushes that record the call.
ResultKeptUnlessThrown(how) == how # "throw"

ResultKept(how) == how = "success"

\* The awaited executeTool settled: how is success (result.success), failure
\* (result.success false) or throw (the promise rejected, caught per call).
ToolSettles(how, dt) ==
  /\ lpc = "awaitTool"
  /\ deviations + ToolCost(how, dt) <= MaxDeviations
  /\ deviations' = deviations + ToolCost(how, dt)
  /\ clock' = clock + dt
  /\ LET call == currentResponse.calls[toolIdx]
         toolCallDuration == clock' - awaitStart
     IN IF ResultKept(how)
        THEN /\ timeSegments' = Append(timeSegments,
                  [type |-> "tool", name |-> call.name, startTime |-> awaitStart,
                   endTime |-> clock', duration |-> toolCallDuration])
             /\ toolResults' = Append(toolResults, call.id)
             /\ toolCalls' = Append(toolCalls,
                  [name |-> call.name, id |-> call.id, duration |-> toolCallDuration])
             /\ currentMessages' = currentMessages \o ToolMessages(call)
        ELSE UNCHANGED <<timeSegments, toolResults, toolCalls, currentMessages>>
  /\ failedIds' = IF how = "success"
                  THEN failedIds
                  ELSE failedIds \cup {currentResponse.calls[toolIdx].id}
  /\ ProceedFrom(currentResponse.calls, toolIdx + 1, toolsTime, toolsStartTime)
  /\ UNCHANGED <<apiKey, providerStartTime, toolsStartTime, currentResponse,
                 content, tokens, iterationCount, modelTime, firstResponseTime,
                 result, thrown, reported, firstLen, allRequested>>
  /\ UNCHANGED <<batchVars, debugVars, mergeVars>>

\* The completion requested after the tool calls arrived.
ModelResolves(shapes, usage, text, dt) ==
  /\ lpc = "awaitModel"
  /\ deviations + ResponseCost(shapes, usage, text, dt) <= MaxDeviations
  /\ deviations' = deviations + ResponseCost(shapes, usage, text, dt)
  /\ clock' = clock + dt
  /\ currentResponse' = [calls |-> WithIds(shapes, modelCalls), usage |-> usage,
                         content |-> IF text THEN modelCalls ELSE 0]
  /\ timeSegments' = Append(timeSegments,
       [type |-> "model", name |-> iterationCount + 1, startTime |-> awaitStart,
        endTime |-> clock', duration |-> clock' - awaitStart])
  /\ modelTime' = AddModelTime(modelTime, clock' - awaitStart)
  /\ content' = IF text THEN currentResponse'.content ELSE content
  /\ tokens' = AddUsage(tokens, usage)
  /\ reported' = Reported(reported, usage)
  /\ iterationCount' = iterationCount + 1
  /\ allRequested' = (allRequested /\ Len(shapes) > 0)
  /\ UNCHANGED <<apiKey, providerStartTime, toolCalls, toolResults,
                 currentMessages, firstResponseTime, firstLen, failedIds>>
  /\ LoopTop(iterationCount + 1, currentResponse'.calls)
  /\ UNCHANGED <<batchVars, debugVars, mergeVars>>

\* An awaited completion request failed: the catch block rethrows the error
\* with startTime, endTime and duration attached.
ModelRejects(dt) ==
  /\ lpc \in {"awaitInitial", "awaitModel"}
  /\ dt = PlainTicks
  /\ clock' = clock + dt
  /\ lpc' = "threw"
  /\ thrown' = [message |-> "provider", timing |-> ErrorTiming(clock')]
  /\ UNCHANGED <<apiKey, providerStartTime, awaitStart, toolsStartTime,
                 currentResponse, content, tokens, toolCalls, toolResults,
                 currentMessages, iterationCount, modelTime, toolsTime,
                 firstResponseTime, timeSegments, toolIdx, result, modelCalls,
                 toolExecs, reported, firstLen, allRequested, executedIds,
                 skippedIds, failedIds, deviations>>
  /\ UNCHANGED <<batchVars, debugVars, mergeVars>>

LoopNext ==
  \/ Begin
  \/ \E cl \in CostedCallLists :
       /\ deviations + cl[2] <= MaxDeviations
       /\ \E usage \in Usages, text \in BOOLEAN, dt \in Ticks :
            InitialResolves(cl[1], usage, text, dt)
  \/ \E how \in {"success", "failure", "throw"}, dt \in Ticks :
       ToolSettles(how, dt)
  \/ \E cl \in CostedCallLists :
       /\ deviations + cl[2] <= MaxDeviations
       /\ \E usage \in Usages, text \in BOOLEAN, dt \in Ticks :
            ModelResolves(cl[1], usage, text, dt)
  \/ \E dt \in Ticks : ModelRejects(dt)

\* ------------------------------------------------- the debug controller

\* The state of the stores when the control bar is mounted.
DebugInit ==
  /\ isDebugModeEnabled = FALSE
  /\ isDebugging = FALSE
  /\ pendingBlocks = <<>>
  /\ dflight = "none"
  /\ runBlocks = <<>>
  /\ executedBlocks = <<>>
  /\ discardedBlocks = {}
  /\ resumeFrom = <<>>
  /\ sessions = 0

Range(seq) == {seq[k] : k \in 1..Len(seq)}

\* The blocks a debug run can have scheduled: 1..k in execution order, k = 0
\* for a run with nothing to execute.
Workflows == {[j \in 1..k |-> j] : k \in 0..MaxBlocks}

\* The disabled attribute of the debug mode toggle.
ToggleEnabled == ~(isExecuting \/ isMultiRunning)

\* The test in handleToggleDebugMode for cleaning up the debug state, and
\* the values the clean-up stores.
ToggleCleansUp == isDebugModeEnabled /\ ~isExecuting

ToggleCleanupFlagSet == TRUE

ToggleCleanupFlag == FALSE

ToggleCleanupBlocks == <<>>

\* handleToggleDebugMode, the onClick of the debug mode toggle.
ToggleDebugMode ==
  /\ ToggleEnabled
  /\ isDebugging' = IF ToggleCleansUp THEN ToggleCleanupFlag ELSE isDebugging
  /\ pendingBlocks' = IF ToggleCleansUp THEN ToggleCleanupBlocks ELSE pendingBlocks
  /\ isDebugModeEnabled' = ~isDebugModeEnabled
  /\ UNCHANGED <<dflight, runBlocks, executedBlocks, discardedBlocks,
                 resumeFrom, sessions>>
  /\ UNCHANGED <<isExecuting, batchOther, loopVars, mergeVars>>

\* renderDebugControls returns the controls only in debug mode with a debug
\* session open; step and resume are disabled without pending blocks.
DebugControlsShown == isDebugModeEnabled /\ isDebugging

StepEnabled == DebugControlsShown /\ Len(pendingBlocks) # 0

ResumeEnabled == DebugControlsShown /\ Len(pendingBlocks) # 0

CancelEnabled == DebugControlsShown

\* The run button in debug mode calls handleRunWorkflow.
DebugRunEnabled ==
  isDebugModeEnabled /\ ~(isExecuting \/ isMultiRunning \/ isCancelling)

\* The pending set recomputed after a block was executed: the blocks of the
\* run not executed yet, in execution order.
PendingAfterNoRemoval(blocks, done) == blocks

PendingAfter(blocks, done) == SelectSeq(blocks, LAMBDA b : b \notin Range(done))

\* Resume goes on while blocks are pending.
ResumeDoneAfterOneBlock(pending) == TRUE

ResumeDone(pending) == pending = <<>>

\* What cancel does with the pending blocks: none is executed.
CancelExecutesHead(pending, done) ==
  IF pending = <<>> THEN done ELSE Append(done, Head(pending))

CancelExecutes(pending, done) == done

\* Idle -> Debugging: a run starts in debug mode; the queue holds the blocks
\* scheduled for the run. The run counts as executing until it is cleared.
StartDebugRun(blocks) ==
  /\ DebugRunEnabled
  /\ dflight = "none"
  /\ batches + sessions < MaxBatches
  /\ sessions' = sessions + 1
  /\ isExecuting' = TRUE
  /\ isDebugging' = TRUE
  /\ pendingBlocks' = blocks
  /\ runBlocks' = blocks
  /\ executedBlocks' = <<>>
  /\ discardedBlocks' = {}
  /\ resumeFrom' = <<>>
  /\ UNCHANGED <<isDebugModeEnabled, dflight>>
  /\ UNCHANGED <<batchOther, loopVars, mergeVars>>

\* handleStepDebug up to the execution of the block it awaits.
StepDebug ==
  /\ StepEnabled
  /\ dflight = "none"
  /\ dflight' = "step"
  /\ UNCHANGED <<isDebugModeEnabled, isDebugging, pendingBlocks, runBlocks,
                 executedBlocks, discardedBlocks, resumeFrom, sessions>>
  /\ UNCHANGED <<isExecuting, batchOther, loopVars, mergeVars>>

\* The end of a debug run: the session is cleared.
ClearIfDone(done) ==
  /\ isDebugging' = ~done
  /\ isExecuting' = ~done

\* The block awaited by step was executed: it leaves the queue, the pending
\* set is recomputed, and a run with nothing pending is complete.
StepSettles ==
  /\ dflight = "step"
  /\ dflight' = "none"
  /\ executedBlocks' = Append(executedBlocks, Head(pendingBlocks))
  /\ pendingBlocks' = PendingAfter(pendingBlocks, executedBlocks')
  /\ ClearIfDone(pendingBlocks' = <<>>)
  /\ UNCHANGED <<isDebugModeEnabled, runBlocks, discardedBlocks, resumeFrom,
                 sessions>>
  /\ UNCHANGED <<batchOther, loopVars, mergeVars>>

\* handleResumeDebug up to the execution of the first block it awaits.
ResumeDebug ==
  /\ ResumeEnabled
  /\ dflight = "none"
  /\ dflight' = "resume"
  /\ resumeFrom' = pendingBlocks
  /\ UNCHANGED <<isDebugModeEnabled, isDebugging, pendingBlocks, runBlocks,
                 executedBlocks, discardedBlocks, sessions>>
  /\ UNCHANGED <<isExecuting, batchOther, loopVars, mergeVars>>

\* A block awaited by resume was executed: resume goes on to the next block
\* without pausing, and clears the session after the last.
ResumeSettles ==
  /\ dflight = "resume"
  /\ executedBlocks' = Append(executedBlocks, Head(pendingBlocks))
  /\ IF ResumeDone(PendingAfter(pendingBlocks, executedBlocks'))
     THEN /\ dflight' = "none"
          /\ pendingBlocks' = <<>>
          /\ ClearIfDone(TRUE)
     ELSE /\ dflight' = "resume"
          /\ pendingBlocks' = PendingAfter(pendingBlocks, executedBlocks')
          /\ UNCHANGED <<isDebugging, isExecuting>>
  /\ UNCHANGED <<isDebugModeEnabled, runBlocks, discardedBlocks, resumeFrom,
                 sessions>>
  /\ UNCHANGED <<batchOther, loopVars, mergeVars>>

\* handleCancelDebug, taken between steps: the pending blocks are discarded
\* and the session is cleared.
CancelDebug ==
  /\ CancelEnabled
  /\ dflight = "none"
  /\ discardedBlocks' = Range(pendingBlocks)
  /\ executedBlocks' = CancelExecutes(pendingBlocks, executedBlocks)
  /\ pendingBlocks' = <<>>
  /\ ClearIfDone(TRUE)
  /\ UNCHANGED <<isDebugModeEnabled, dflight, runBlocks, resumeFrom, sessions>>
  /\ UNCHANGED <<batchOther, loopVars, mergeVars>>

DebugNext ==
  \/ ToggleDebugMode
  \/ \E blocks \in Workflows : StartDebugRun(blocks)
  \/ StepDebug
  \/ StepSettles
  \/ ResumeDebug
  \/ ResumeSettles
  \/ CancelDebug

\* ---- arguments of a tool call

\* The parameter names and values of the model; Absent stands for a name the
\* object does not have.
Keys == 1..MaxKeys

Values == 1..MaxValue

Absent == 0

\* A plain object over the parameter names.
Objects == [Keys -> Values \cup {Absent}]

EmptyObject == [k \in Keys |-> Absent]

\* { ...tool.params, ...toolArgs }: the later spread wins on a shared name.
MergeArgsDefaultsWin(params, args) ==
  [k \in Keys |-> IF params[k] # Absent THEN params[k] ELSE args[k]]

MergeArgs(params, args) ==
  [k \in Keys |-> IF args[k] # Absent THEN args[k] ELSE params[k]]

\* No tool call is being prepared.
MergeOff ==
  /\ toolParams = EmptyObject
  /\ toolArgs = EmptyObject
  /\ mergedArgs = EmptyObject
  /\ mpc = "off"

\* A tool call whose arguments parsed and whose tool was found.
MergeInit ==
  /\ toolParams \in Objects
  /\ toolArgs \in Objects
  /\ mergedArgs = EmptyObject
  /\ mpc = "parsed"

\* const mergedArgs = { ...tool.params, ...toolArgs }
Merge ==
  /\ mpc = "parsed"
  /\ mergedArgs' = MergeArgs(toolParams, toolArgs)
  /\ mpc' = "merged"
  /\ UNCHANGED <<toolParams, toolArgs>>
  /\ UNCHANGED <<batchVars, loopVars, debugVars>>

Init == BatchInit /\ LoopInit /\ DebugInit /\ MergeOff

\* The preparation of the arguments of one tool call, seen on its own.
MergeStart == BatchInit /\ LoopInit /\ DebugInit /\ MergeInit

MergeSpec == MergeStart /\ [][Merge]_vars

BatchSpec == Init /\ [][BatchNext]_vars

\* The debug controller, seen on its own.
DebugSpec == Init /\ [][DebugNext]_vars

\* A block awaited by step or resume is executed in the end.
DebugFairSpec == DebugSpec /\ WF_vars(StepSettles) /\ WF_vars(ResumeSettles)

\* The control bar: the run batch and the debug controller together.
ControlBarNext ==
  \/ StartBatch
  \/ RefusedInvocation
  \/ \E fetchHow \in {"sent", "throws"} : RunResolves(fetchHow)
  \/ \E ok \in BOOLEAN : StatsSettles(ok)
  \/ RunRejects
  \/ CancelClick
  \/ \E c \in RunCountChoices : SetRunCount(c)
  \/ HideProgressTimer
  \/ ToggleDebugMode
  \/ \E blocks \in Workflows : StartDebugRun(blocks)
  \/ StepDebug
  \/ StepSettles
  \/ ResumeDebug
  \/ ResumeSettles
  \/ CancelDebug

ControlBarSpec == Init /\ [][ControlBarNext]_vars

\* A request, seen on its own: the control bar stays in one initial state.
LoopStart == Init /\ activeWorkflowId = TRUE

LoopSpec == LoopStart /\ [][LoopNext]_vars

\* An awaited executeTool settles, one way or another.
ToolCallSettles ==
  \E how \in {"success", "failure", "throw"}, dt \in Ticks : ToolSettles(how, dt)

\* An awaited completion request settles: it fails or it answers.
ModelCallSettles ==
  \/ \E dt \in Ticks : ModelRejects(dt)
  \/ \E cl \in CostedCallLists :
       /\ deviations + cl[2] <= MaxDeviations
       /\ \E usage \in Usages, text \in BOOLEAN, dt \in Ticks :
            \/ InitialResolves(cl[1], usage, text, dt)
            \/ ModelResolves(cl[1], usage, text, dt)

\* The request is started, and every awaited provider and tool call settles.
LoopFairSpec ==
  /\ LoopSpec
  /\ WF_vars(Begin)
  /\ WF_vars(ToolCallSettles)
  /\ WF_vars(ModelCallSettles)

\* ------------------------------------------------------ run batch: claims

\* C1 as stated: if cancellation is requested when k runs have completed
\* (1 <= k < n) and no run raises, the batch ends cancelled with
\* completedRuns = k and no run after run k is executed.
C1_CancelAfterRunK_Original ==
  (bpc = "done" /\ raisedAt = 0 /\ cancelAt >= 1 /\ cancelAt < n)
    => /\ outcome = "cancelled"
       /\ completedRuns = cancelAt
       /\ started = cancelAt

\* C1 amended: a cancellation can only be requested while a run is in flight;
\* requested while run k+1 is in flight (k runs completed) with k+1 < n and
\* run k+1 not raising, the batch ends cancelled with completedRuns = k+1 and
\* runs k+2..n are never started; and a cancelled batch's completedRuns equals
\* the number of runs that finished before the cancellation was observed.
C1_CancelledBatch ==
  /\ (cancelAt >= 0 => started = cancelAt + 1)
  /\ (bpc = "done" /\ raisedAt = 0 /\ cancelAt >= 0 /\ cancelAt + 1 < n)
       => /\ outcome = "cancelled"
          /\ completedRuns = cancelAt + 1
  /\ (outcome = "cancelled")
       => /\ observedAt >= 0
          /\ completedRuns = observedAt
          /\ finished = observedAt
          /\ started = observedAt
          /\ notifications[Len(notifications)].type = "info"

C1_Witness ==
  /\ bpc = "done" /\ outcome = "cancelled"
  /\ n = 5 /\ cancelAt = 2 /\ completedRuns = 3 /\ started = 3

\* C2: if run k raises, the batch stops at once: completedRuns = k - 1, the
\* terminal outcome is error (whether or not a cancellation was requested),
\* and no run after run k is attempted.
C2_FailFast ==
  raisedAt > 0
    => /\ bpc = "done"
       /\ outcome = "error"
       /\ completedRuns = raisedAt - 1
       /\ finished = raisedAt - 1
       /\ started = raisedAt
       /\ notifications[Len(notifications)].type = "error"

C2_Witness ==
  /\ bpc = "done" /\ outcome = "error"
  /\ n = 5 /\ raisedAt = 3 /\ completedRuns = 2 /\ started = 3

\* C3: completedRuns never exceeds the requested count of the batch, and a
\* batch all of whose runs finished ends completed with completedRuns equal to
\* the requested count.
C3_CompletedWithinCount ==
  /\ completedRuns <= n
  /\ finished <= n /\ started <= n
  /\ (isMultiRunning => completedRuns <= runCount /\ n = runCount)
  /\ (bpc = "done" /\ raisedAt = 0 /\ observedAt < 0)
       => /\ outcome = "completed"
          /\ finished = n
          /\ completedRuns = n

C3_Witness ==
  /\ bpc = "done" /\ outcome = "completed"
  /\ n = 5 /\ completedRuns = 5 /\ finished = 5 /\ cancelAt < 0

\* C4 as stated: a terminated batch has published exactly one terminal
\* outcome notification, whatever the count and the way it ended.
C4_ExactlyOneNotification_Original ==
  bpc = "done" => notified = 1

\* C4 amended: a terminated batch has published exactly one terminal outcome
\* notification, of the type of its outcome, except that a batch of count 1
\* that ends completed publishes none; a running batch has published none.
C4_TerminalNotification ==
  /\ (bpc = "awaitRun" => notified = 0)
  /\ (bpc = "done" /\ outcome = "completed" /\ n = 1) => notified = 0
  /\ (bpc = "done" /\ ~(outcome = "completed" /\ n = 1))
       => /\ notified = 1
          /\ notifications[Len(notifications)].text =
               (IF outcome = "error" THEN "failed" ELSE outcome)

C4_Witness ==
  /\ bpc = "done" /\ n = 1 /\ outcome = "error" /\ notified = 1

\* ------------------------------------------------ conversation loop: claims

\* Sum of the durations of the segments of one kind, as the timing summary
\* is meant to report them.
RECURSIVE SumDur(_, _)
SumDur(kind, segments) ==
  IF segments = <<>> THEN 0
  ELSE (IF Head(segments).type = kind THEN Head(segments).duration ELSE 0)
       + SumDur(kind, Tail(segments))

Terminated == lpc \in {"returned", "threw"}

\* C5 as stated: when every response requests at least one tool invocation,
\* no more than 10 model calls are made in total.
C5_AtMostTenCalls_Original ==
  allRequested => modelCalls <= MAX_ITERATIONS

\* C5 amended: when every response requests at least one tool invocation, no
\* more than 11 model calls are made in total (the first call and one per
\* iteration), and the request returns after exactly 11.
C5_AtMostElevenCalls ==
  /\ allRequested => modelCalls <= MAX_ITERATIONS + 1
  /\ (allRequested /\ lpc = "returned")
       => /\ modelCalls = MAX_ITERATIONS + 1
          /\ iterationCount = MAX_ITERATIONS

C5_Witness ==
  /\ lpc = "returned" /\ allRequested
  /\ modelCalls = MAX_ITERATIONS + 1
  /\ Len(currentResponse.calls) > 0

\* C6: whatever the provider and the tools answer, the loop makes at most
\* cap + 1 = 11 model calls and comes to an end; reaching the cap ends the
\* request with a normal result that carries the accumulated content, logs
\* and timing, never with an error.
C6_CapIsNormalTermination ==
  /\ [](/\ modelCalls <= MAX_ITERATIONS + 1
        /\ iterationCount <= MAX_ITERATIONS
        /\ (iterationCount = MAX_ITERATIONS
              => /\ lpc = "returned"
                 /\ thrown = NoError
                 /\ result # NoResult)
        /\ (lpc = "returned"
              => /\ result.content = content
                 /\ result.tokens = tokens
                 /\ result.toolCalls = toolCalls
                 /\ result.toolResults = toolResults
                 /\ result.timeSegments = timeSegments
                 /\ result.modelTime = modelTime
                 /\ result.toolsTime = toolsTime
                 /\ result.iterations = iterationCount + 1))
  /\ <>Terminated

C6_Witness ==
  /\ lpc = "returned" /\ iterationCount = MAX_ITERATIONS
  /\ modelCalls = MAX_ITERATIONS + 1
  /\ Len(currentResponse.calls) > 0
  /\ Len(result.toolCalls) > 0 /\ result.content # 0

\* C7: when the first response requests no tool invocation, exactly one model
\* call is made, no tool is executed, and the request returns reporting one
\* iteration.
C7_NoToolCallsOneIteration ==
  firstLen = 0
    => /\ lpc = "returned"
       /\ modelCalls = 1
       /\ toolExecs = 0
       /\ result.iterations = 1
       /\ result.toolCalls = <<>>
       /\ Len(result.timeSegments) = 1

C7_Witness ==
  /\ firstLen = 0 /\ lpc = "returned" /\ modelCalls = 1

\* C8: after any number of model calls each token counter equals the sum of
\* the usage the provider reported for those calls, and no counter ever
\* decreases within a request.
C8_TokensAreReportedSum ==
  /\ [](tokens = reported)
  /\ [][/\ tokens'.prompt >= tokens.prompt
        /\ tokens'.completion >= tokens.completion
        /\ tokens'.total >= tokens.total]_vars

C8_Witness ==
  /\ lpc = "returned" /\ modelCalls = 3
  /\ tokens = [prompt |-> 3, completion |-> 1, total |-> 4]

\* C9: the reported modelTime equals the sum of the durations of the recorded
\* model segments, for any sequence of model calls.
C9_ModelTimeIsSegmentSum ==
  /\ modelTime = SumDur("model", timeSegments)
  /\ lpc = "returned" => result.modelTime = SumDur("model", result.timeSegments)

C9_Witness ==
  /\ lpc = "returned" /\ modelCalls = 3
  /\ result.modelTime = 5 /\ toolExecs = 2

\* C10: the reported toolsTime equals the sum of the durations of the
\* recorded tool segments, whatever the tool invocations did.
C10_ToolsTimeIsSegmentSum ==
  lpc = "returned" => result.toolsTime = SumDur("tool", result.timeSegments)

\* ------------------------------------ conversation loop: error handling

\* The calls of the current response the for loop has dealt with.
ProcessedCalls ==
  IF lpc = "awaitTool" THEN 1..(toolIdx - 1)
  ELSE IF lpc \in {"awaitModel", "threw"} THEN 1..Len(currentResponse.calls)
  ELSE {}

\* The call with this id left a trace in the transcript or in a result log.
Recorded(id) ==
  \/ \E k \in 1..Len(currentMessages) :
       /\ currentMessages[k].role \in {"assistant", "tool"}
       /\ currentMessages[k].id = id
  \/ \E k \in 1..Len(toolResults) : toolResults[k] = id
  \/ \E k \in 1..Len(toolCalls) : toolCalls[k].id = id

\* An error thrown with an API key present came from a completion request
\* that failed: that request is the only one without a model segment.
ThrownByProviderOnly ==
  (lpc = "threw" /\ apiKey)
    => /\ thrown.message = "provider"
       /\ modelCalls = Len(SelectSeq(timeSegments, LAMBDA g : g.type = "model")) + 1

\* Every executable call the for loop has passed was handed to executeTool,
\* and past the last call the next completion is requested.
LoopContinues ==
  /\ \A k \in ProcessedCalls :
       Executable(currentResponse.calls[k])
         => currentResponse.calls[k].id \in executedIds
  /\ lpc = "awaitTool" => Executable(currentResponse.calls[toolIdx])
  /\ lpc = "awaitModel" => modelCalls = iterationCount + 2

\* C11: a requested tool call whose name is not among request.tools is
\* skipped: it is never handed to executeTool, the messages and the result
\* logs never hold an entry with its id, no error is thrown for it, and the
\* loop goes on to the remaining calls and to the next completion request.
C11_UnknownToolSkipped ==
  /\ \A k \in ProcessedCalls :
       currentResponse.calls[k].name \notin RequestTools
         => currentResponse.calls[k].id \in skippedIds
  /\ \A id \in skippedIds : id \notin executedIds /\ ~Recorded(id)
  /\ LoopContinues
  /\ ThrownByProviderOnly

C11_Witness ==
  /\ lpc = "awaitModel"
  /\ Len(currentResponse.calls) = 2
  /\ currentResponse.calls[1].name \notin RequestTools
  /\ currentResponse.calls[1].argsOk
  /\ currentResponse.calls[1].id \in skippedIds
  /\ Recorded(currentResponse.calls[2].id)

\* C12: a tool call that fails (result.success false, executeTool throwing,
\* or arguments that do not parse) adds nothing to the messages, toolResults
\* or toolCalls, the calls after it in the same response are still executed,
\* and the request neither throws for it nor reports it in its result.
C12_FailedToolLeavesNoTrace ==
  /\ \A id \in failedIds : id \in executedIds /\ ~Recorded(id)
  /\ \A k \in ProcessedCalls :
       ~currentResponse.calls[k].argsOk
         => /\ currentResponse.calls[k].id \notin executedIds
            /\ ~Recorded(currentResponse.calls[k].id)
  /\ \A k \in ProcessedCalls :
       (/\ Executable(currentResponse.calls[k])
        /\ \E f \in 1..(k - 1) :
             \/ currentResponse.calls[f].id \in failedIds
             \/ ~currentResponse.calls[f].argsOk)
         => currentResponse.calls[k].id \in executedIds
  /\ lpc = "awaitModel" => modelCalls = iterationCount + 2
  /\ lpc = "threw" /\ apiKey => thrown.message = "provider"
  /\ lpc = "returned"
       => /\ thrown = NoError
          /\ \A k \in 1..Len(result.toolCalls) :
               result.toolCalls[k].id \notin failedIds
          /\ Len(result.toolResults) = Cardinality(executedIds \ failedIds)

C12_Witness ==
  /\ lpc = "returned"
  /\ failedIds # {}
  /\ \E id \in failedIds : id + 1 \in executedIds \ failedIds
  /\ Len(result.toolResults) = 1

\* C13 as stated: a failed completion request ends the request at once and
\* the error thrown carries the timing summary accumulated up to the failure:
\* total duration, model time, tools time and iterations performed.
C13_ErrorCarriesSummary_Original ==
  (lpc = "threw" /\ thrown.message = "provider")
    => /\ thrown.timing.duration = clock - providerStartTime
       /\ {"modelTime", "toolsTime", "iterations"} \subseteq DOMAIN thrown.timing

\* C13 amended: a failed completion request, the first or a later one, ends
\* the request at once: the failing step and every step after it execute no
\* tool and issue no completion request, nothing is returned, and the error
\* thrown carries exactly the start time of the provider execution, the time
\* of the failure and the duration between them, not the accumulated model
\* time, tools time, iterations or segments.
C13_ProviderFailureAborts ==
  /\ []((lpc = "threw" /\ apiKey)
          => /\ thrown = [message |-> "provider",
                          timing |-> [startTime |-> providerStartTime,
                                      endTime |-> clock,
                                      duration |-> clock - providerStartTime]]
             /\ result = NoResult
             /\ modelCalls
                  = Len(SelectSeq(timeSegments, LAMBDA g : g.type = "model")) + 1)
  /\ [][(lpc' = "threw" /\ apiKey)
          => /\ lpc \in {"awaitInitial", "awaitModel", "threw"}
             /\ UNCHANGED <<modelCalls, toolExecs, executedIds, currentMessages,
                            toolCalls, toolResults, timeSegments>>]_vars

C13_Witness ==
  /\ lpc = "threw" /\ thrown # NoError /\ thrown.message = "provider"
  /\ iterationCount = 1 /\ toolExecs = 1 /\ modelCalls = 3
  /\ thrown.timing.duration > modelTime + toolsTime

\* C14: a request without an API key fails with the API key error before any
\* completion request is issued and before any tool is executed.
C14_NoKeyNoCalls ==
  ~apiKey
    => /\ modelCalls = 0
       /\ toolExecs = 0
       /\ executedIds = {}
       /\ lpc \in {"start", "threw"}
       /\ lpc = "threw" => (thrown = AuthError /\ result = NoResult)

C14_Witness ==
  /\ ~apiKey /\ lpc = "threw" /\ thrown = AuthError /\ modelCalls = 0

\* ------------------------------------------- run batch: the stats POST

\* C15 as stated: after every batch that ends completed, and after every
\* batch that ends cancelled with some runs completed, the stats POST is made
\* and reports the number of runs completed.
C15_StatsAfterCompletedOrCancelled_Original ==
  (/\ bpc = "done" /\ activeWorkflowId
   /\ outcome \in {"completed", "cancelled"})
    => statsSent = <<finished>>

\* C15 amended: the stats POST is made once after every batch that ends
\* completed while a workflow is active, and reports the requested run count,
\* which is then the number of runs completed; it is not made after a batch
\* that ends cancelled or failed, nor without an active workflow.
C15_StatsOnlyAfterCompleted ==
  /\ Len(statsCalls) <= batches
  /\ bpc = "awaitRun" => statsSent = <<>>
  /\ bpc = "done"
       => /\ (outcome = "completed" /\ activeWorkflowId)
               => (statsSent = <<n>> /\ n = finished)
          /\ (outcome # "completed" \/ ~activeWorkflowId)
               => statsSent = <<>>

C15_Witness ==
  /\ bpc = "done" /\ activeWorkflowId /\ batches = 2
  /\ outcome = "cancelled" /\ finished >= 1 /\ finished < n
  /\ statsSent = <<>>
  /\ Len(statsCalls) = 1

\* C16: a stats POST that fails, by throwing or by a promise rejected later,
\* changes nothing of what the batch reports: a batch whose runs all resolved
\* ends completed, without the failure notification, and the later rejection
\* leaves the outcome and the notifications as they are.
C16_StatsFailureIsSwallowed ==
  /\ []((bpc = "done" /\ statsThrew)
          => /\ outcome = "completed"
             /\ ~workflowError
             /\ finished = n
             /\ \A k \in (Len(notifications) - notified + 1)..Len(notifications) :
                  notifications[k].type # "error")
  /\ []((bpc = "done" /\ statsSent # <<>>)
          => (outcome = "completed" /\ ~workflowError))
  /\ [][statsPending' < statsPending
          => UNCHANGED <<outcome, workflowError, notifications, notified,
                         completedRuns, isMultiRunning, bpc>>]_vars

C16_Witness ==
  /\ bpc = "done" /\ batches = 2 /\ outcome = "completed"
  /\ statsThrew /\ statsLogged = 2 /\ statsPending = 0
  /\ Len(statsCalls) = 2

\* ------------------------------------------------ debug controller: claims

C18_ResumeDrains ==
  /\ [](dflight = "resume"
          => /\ isDebugging /\ resumeFrom # <<>>
             /\ Range(resumeFrom) \subseteq
                  Range(executedBlocks) \cup Range(pendingBlocks))
  /\ [][dflight = "resume"
          => \/ dflight' = "resume" /\ isDebugging'
             \/ /\ dflight' = "none"
                /\ ~isDebugging' /\ ~isExecuting'
                /\ pendingBlocks' = <<>>
                /\ Range(resumeFrom) \subseteq Range(executedBlocks')]_vars
  /\ (dflight = "resume")
       ~> (/\ dflight = "none" /\ ~isDebugging
           /\ pendingBlocks = <<>>
           /\ Range(resumeFrom) \subseteq Range(executedBlocks))

C18_Witness ==
  /\ ~isDebugging /\ ~isExecuting /\ dflight = "none"
  /\ runBlocks = <<1, 2, 3>>
  /\ resumeFrom = <<2, 3>>
  /\ executedBlocks = <<1, 2, 3>>
  /\ pendingBlocks = <<>>

\* C19: a cancel taken from a debug session with pending blocks clears the
\* session and leaves the pending set empty, and none of the blocks that were
\* pending when it was taken is executed, then or later in that run.
C19_CancelDiscards ==
  /\ discardedBlocks \cap Range(executedBlocks) = {}
  /\ discardedBlocks # {}
       => /\ ~isDebugging /\ ~isExecuting
          /\ pendingBlocks = <<>>
          /\ dflight = "none"
          /\ Range(runBlocks) = discardedBlocks \cup Range(executedBlocks)

C19_Witness ==
  /\ discardedBlocks = {2, 3}
  /\ executedBlocks = <<1>>
  /\ pendingBlocks = <<>> /\ ~isDebugging

C21_RunsAreSequential ==
  /\ [](/\ started - finished \in {0, 1}
        /\ bpc = "awaitRun"
             => (started = finished + 1 /\ isExecuting /\ isMultiRunning)
        /\ (bpc = "done" /\ raisedAt = 0) => started = finished)
  /\ [][started' # started
          => /\ finished' = started' - 1
             /\ completedRuns' = started' - 1
             /\ bpc' = "awaitRun"]_vars
  /\ [][(refused' /\ ~refused)
          => /\ isExecuting \/ isMultiRunning \/ runCount <= 0
             /\ UNCHANGED <<runCount, completedRuns, isMultiRunning,
                            showRunProgress, isCancelling, cancelFlagRef,
                            isExecuting, notifications, statsCalls, bpc, i, n,
                            started, finished, outcome, batches>>]_vars

C21_Witness ==
  /\ bpc = "awaitRun" /\ refused
  /\ n = 5 /\ started = 3 /\ finished = 2 /\ completedRuns = 2

\* ---- conversation loop: the transcript of tool calls

\* The iteration a call id belongs to: the number of the completion that
\* requested it.
IterationOf(id) == id \div 10

\* The number of messages of a role that an iteration appended.
MessagesOf(role, k) ==
  Cardinality({m \in 1..Len(currentMessages) :
                 /\ currentMessages[m].role = role
                 /\ currentMessages[m].id # 0
                 /\ IterationOf(currentMessages[m].id) = k})

\* The number of successful results of an iteration.
ResultsOf(k) ==
  Cardinality({m \in 1..Len(toolResults) : IterationOf(toolResults[m]) = k})

\* C22 as stated: every iteration of the loop appends exactly one assistant
\* message (declaring the calls it attempted), followed by one tool message
\* per successful result.
C22_OneAssistantMessagePerIteration_Original ==
  lpc = "awaitModel"
    => /\ MessagesOf("assistant", modelCalls - 1) = 1
       /\ MessagesOf("tool", modelCalls - 1) = ResultsOf(modelCalls - 1)

\* C22 amended: for every successful tool invocation the loop appends one
\* assistant message declaring that call alone, immediately followed by its
\* tool message, and nothing for any other invocation: the transcript is
\* the initial messages followed by one such pair per successful result, and
\* an iteration appends as many assistant messages as it has successful
\* results.
C22_OneDeclarationPerSuccess ==
  /\ currentMessages # <<>>
       => /\ Len(currentMessages) = Len(InitialMessages) + 2 * Len(toolResults)
          /\ \A m \in 1..Len(toolResults) :
               /\ currentMessages[Len(InitialMessages) + 2 * m - 1]
                    = [role |-> "assistant", id |-> toolResults[m]]
               /\ currentMessages[Len(InitialMessages) + 2 * m]
                    = [role |-> "tool", id |-> toolResults[m]]
  /\ lpc = "awaitModel"
       => /\ MessagesOf("assistant", modelCalls - 1) = ResultsOf(modelCalls - 1)
          /\ MessagesOf("tool", modelCalls - 1) = ResultsOf(modelCalls - 1)

\* An iteration whose two calls both succeeded appended two assistant
\* messages; it followed an iteration without any success, which appended none.
C22_Witness ==
  /\ lpc = "awaitModel" /\ modelCalls = 3
  /\ MessagesOf("assistant", 2) = 2
  /\ MessagesOf("assistant", 1) = 0 /\ failedIds # {}

\* The number of segments of a type in the timing log.
SegmentsOf(type) ==
  Cardinality({m \in 1..Len(timeSegments) : timeSegments[m].type = type})

\* C23: while the request runs and when it has returned, the timing log holds
\* one model segment per completed model call and one tool segment per
\* settled tool execution, whether the execution succeeded or not, in
\* chronological order.
C23_OneSegmentPerCall ==
  lpc \in {"awaitTool", "awaitModel", "returned"}
    => /\ SegmentsOf("model")
            = modelCalls - (IF lpc = "awaitModel" THEN 1 ELSE 0)
       /\ SegmentsOf("tool") = toolExecs - (IF lpc = "awaitTool" THEN 1 ELSE 0)
       /\ \A m \in 1..(Len(timeSegments) - 1) :
            timeSegments[m].endTime <= timeSegments[m + 1].startTime

\* ---- conversation loop: order of the tool executions

\* The tool executions that have settled.
SettledExecs == Len(toolResults) + Cardinality(failedIds)

\* The ids recorded in a sequence of records with an id field are strictly
\* increasing: ids grow with the iteration and, within it, with the position
\* of the call in the response.
IncreasingIds(ids) == \A a, b \in 1..Len(ids) : a < b => ids[a] < ids[b]

\* C24: within an iteration the tool invocations execute one at a time in
\* the order the response lists them: at most one execution is in flight, the
\* execution in flight is that of the first executable call not yet dealt
\* with, every executable call before it has settled, no call after it has
\* started; and the transcript and the result logs list the calls in that
\* order.
C24_ToolsRunInListedOrder ==
  /\ toolExecs - SettledExecs = (IF lpc = "awaitTool" THEN 1 ELSE 0)
  /\ lpc = "awaitTool"
       => /\ Executable(currentResponse.calls[toolIdx])
          /\ \A j \in 1..Len(currentResponse.calls) :
               LET id == currentResponse.calls[j].id IN
               /\ (j < toolIdx /\ Executable(currentResponse.calls[j]))
                    => (id \in executedIds
                        /\ (id \in failedIds \/ Recorded(id)))
               /\ j = toolIdx => (id \in executedIds /\ id \notin failedIds
                                  /\ ~Recorded(id))
               /\ j > toolIdx => id \notin executedIds
  /\ lpc = "awaitModel"
       => \A j \in 1..Len(currentResponse.calls) :
            Executable(currentResponse.calls[j])
              => currentResponse.calls[j].id \in executedIds
  /\ IncreasingIds(toolResults)
  /\ IncreasingIds([m \in 1..Len(toolCalls) |-> toolCalls[m].id])
  /\ \A a, b \in 1..Len(currentMessages) :
       a < b => currentMessages[a].id <= currentMessages[b].id

\* The second call of a response is in flight after the first one settled
\* with a result that was recorded.
C24_Witness ==
  /\ lpc = "awaitTool" /\ toolIdx = 2
  /\ Executable(currentResponse.calls[1])
  /\ Recorded(currentResponse.calls[1].id)
  /\ toolExecs = 2

\* ---- conversation loop: arguments of a tool call

\* C25: the arguments passed to a tool are its default parameters overlaid
\* by the parsed arguments of the invocation: every name of the parsed
\* arguments has the invocation's value, every default name the invocation
\* does not give keeps its default, and no other name appears.
C25_ArgumentsOverlayDefaults ==
  mpc = "merged"
    => \A k \in Keys :
         /\ toolArgs[k] # Absent => mergedArgs[k] = toolArgs[k]
         /\ (toolArgs[k] = Absent /\ toolParams[k] # Absent)
              => mergedArgs[k] = toolParams[k]
         /\ (toolArgs[k] = Absent /\ toolParams[k] = Absent)
              => mergedArgs[k] = Absent

\* A merge in which the invocation overrode one default and left the other.
C25_Witness ==
  /\ mpc = "merged"
  /\ toolParams = [k \in Keys |-> 1]
  /\ toolArgs[1] = 2 /\ toolArgs[2] = Absent
  /\ mergedArgs[1] = 2 /\ mergedArgs[2] = 1

\* ---- conversation loop: pairing of declarations and results

\* C29: each tool message of the transcript is immediately preceded by an
\* assistant message declaring the tool call with the same id, and an
\* assistant tool-call message exists only for an invocation that was
\* executed and succeeded: it is followed by that invocation's result, and
\* its id is among the successful results and never among the failed or
\* skipped invocations.
C29_ResultFollowsItsDeclaration ==
  \A m \in 1..Len(currentMessages) :
    /\ currentMessages[m].role = "tool"
         => /\ m > 1
            /\ currentMessages[m - 1]
                 = [role |-> "assistant", id |-> currentMessages[m].id]
    /\ currentMessages[m].role = "assistant"
         => /\ currentMessages[m].id \in executedIds
            /\ currentMessages[m].id \notin failedIds \cup skippedIds
            /\ \E r \in 1..Len(toolResults) :
                 toolResults[r] = currentMessages[m].id
            /\ m < Len(currentMessages)
            /\ currentMessages[m + 1]
                 = [role |-> "tool", id |-> currentMessages[m].id]

\* A response with a failed and then a successful invocation: the transcript
\* holds the declaration and the result of the second one only.
C29_Witness ==
  /\ lpc = "awaitModel" /\ modelCalls = 2
  /\ failedIds = {11}
  /\ currentMessages = InitialMessages \o
       <<[role |-> "assistant", id |-> 12], [role |-> "tool", id |-> 12]>>

\* ---- conversation loop: the cap and the last response

\* The iterations in which a tool was executed.
ToolRounds == {IterationOf(id) : id \in executedIds}

\* C30: when the loop stops because the cap is reached, the tool invocations
\* the final response requests are never executed and leave no entry in the
\* transcript, the tool-call log, the tool results or the timing segments
\* (which hold one tool segment per recorded result); tools are executed in
\* at most MAX_ITERATIONS rounds of one request.
C30_CapLeavesLastCallsUnexecuted ==
  /\ (lpc = "returned" /\ iterationCount = MAX_ITERATIONS)
       => /\ \A j \in 1..Len(currentResponse.calls) :
               /\ currentResponse.calls[j].id \notin executedIds
               /\ ~Recorded(currentResponse.calls[j].id)
          /\ SegmentsOf("tool") = Len(toolResults)
          /\ result.toolCalls = toolCalls
          /\ result.toolResults = toolResults
  /\ Cardinality(ToolRounds) <= MAX_ITERATIONS
  /\ \A id \in executedIds : IterationOf(id) <= MAX_ITERATIONS

\* The loop stopped at the cap with a final response that requests two valid
\* calls of the registered tool, after ten rounds of tool execution.
C30_Witness ==
  /\ lpc = "returned" /\ iterationCount = MAX_ITERATIONS
  /\ Len(currentResponse.calls) = 2
  /\ \A j \in 1..2 : Executable(currentResponse.calls[j])
  /\ Cardinality(ToolRounds) = MAX_ITERATIONS

\* ---- run batch: cancellation and its outcome

\* C26 as stated: a batch ends completed only if no cancellation was
\* requested while it was running; every cancellation requested during the
\* batch, the last run included, makes it end cancelled.
C26_CancelRequestAlwaysCancels_Original ==
  /\ (bpc = "done" /\ outcome = "completed") => cancelAt < 0
  /\ (bpc = "done" /\ cancelAt >= 0 /\ raisedAt = 0) => outcome = "cancelled"

\* C26 amended: a cancellation request is observed only at the check before
\* the next run. A batch ends cancelled exactly when a cancellation was
\* requested while a run other than the last was in flight and that run did
\* not raise; a request made while the last run is in flight is never
\* observed, and the batch ends completed if that run finishes.
C26_CancelObservedBeforeNextRun ==
  bpc = "done"
    => /\ outcome = "cancelled"
            <=> (cancelAt >= 0 /\ cancelAt + 1 < n /\ raisedAt = 0)
       /\ (outcome = "completed" /\ cancelAt >= 0)
            => (cancelAt = n - 1 /\ observedAt < 0 /\ completedRuns = n)
       /\ (cancelAt = n - 1 /\ raisedAt = 0) => outcome = "completed"

\* A batch of five runs that ended completed although cancellation was
\* requested while its fifth run was in flight.
C26_Witness ==
  /\ bpc = "done" /\ outcome = "completed"
  /\ n = 5 /\ cancelAt = 4 /\ completedRuns = 5

\* ---- run batch: the success notification

\* C27: when a batch of more than one run ends completed, the number of runs
\* its success notification states is the number of runs the batch executed,
\* which is its requested count.
C27_SuccessNotificationCountsRuns ==
  (bpc = "done" /\ outcome = "completed" /\ n > 1)
    => /\ notified = 1
       /\ notifications[Len(notifications)].type = "console"
       /\ finished = n
       /\ notifications[Len(notifications)].runs = finished

\* ---- run batch: cancellation does not outlive its batch

\* C28: after a batch terminates, with any outcome, the cancellation flag,
\* isMultiRunning and isCancelling are all false; a batch starts with the
\* three of them cleared and no cancellation on record; and a batch ends
\* cancelled only if cancellation was requested during that batch.
C28_CancellationStaysInItsBatch ==
  /\ [](/\ bpc \in {"idle", "done"}
             => (~cancelFlagRef /\ ~isMultiRunning /\ ~isCancelling)
        /\ (cancelFlagRef \/ isCancelling)
             => (bpc = "awaitRun" /\ cancelAt >= 0)
        /\ outcome = "cancelled" => (cancelAt >= 0 /\ observedAt > cancelAt)
        /\ (bpc = "awaitRun" /\ cancelAt < 0)
             => (~cancelFlagRef /\ ~isCancelling))
  /\ [][batches' # batches
          => /\ ~cancelFlagRef' /\ ~isCancelling' /\ isMultiRunning'
             /\ cancelAt' < 0 /\ outcome' = "none"]_vars

\* A second batch running with no cancellation on record, after a first
\* batch that was cancelled.
C28_Witness ==
  /\ batches = 2 /\ bpc = "awaitRun" /\ finished = 1
  /\ ~cancelFlagRef /\ ~isCancelling /\ cancelAt < 0
  /\ \E m \in 1..Len(notifications) : notifications[m].text = "cancelled"

====
